---- MODULE Spec2Model ----
(***************************************************************************)
(* The note-transformation and arpeggiation engine of the MIDI transposer  *)
(* plugin (src/lib.rs, src/arpeggiator.rs, src/note_state.rs,              *)
(* src/params.rs): the held-note stack, the chord builder and the          *)
(* arpeggiator rotation, as a state machine over one plugin instance.      *)
(***************************************************************************)
EXTENDS Integers, Sequences, FiniteSets, TLC

VARIABLES
    params,             \* MidiTransposer.params: the parameter cells
    midi_events,        \* MidiTransposer.midi_events: events of the block
    arp,                \* MidiTransposer.arp: the Arpeggiator
    current_note_held,  \* MidiTransposer.current_note_held
    generated_chord,    \* MidiTransposer.generated_chord
    notes_held,         \* MidiTransposer.notes_held
    pc,                 \* position of the audio thread: "idle" | "events"
    block,              \* the block being processed: sample count, last input offset, inputs taken
    overflow_checks,    \* build profile: TRUE = arithmetic overflow panics, FALSE = it wraps
    panicked,           \* the audio thread has panicked
    hist,               \* the first operations since construction (history variable)
    last,               \* the last operation and what it emitted (history variable)
    down,               \* pitches pressed and not yet released (history variable)
    run                 \* the arpeggiator clock driven block by block (history variable)

vars == <<params, midi_events, arp, current_note_held, generated_chord,
          notes_held, pc, block, overflow_checks, panicked, hist, last, down, run>>

(***************************************************************************)
(* Bounds of the model.                                                    *)
(***************************************************************************)
MaxConfigured == 2      \* interval sliders moved away from their default 0
MaxHeld == 2            \* entries of notes_held
MaxInputs == 1          \* input note events taken in one block
MaxBlocks == 3          \* blocks the clock is driven through in one window
MaxSeeks == 1           \* jumps of the host's beat position
MaxSounding == 2        \* NoteOn events of one pitch sent without their NoteOff

(***************************************************************************)
(* Program constants.                                                      *)
(***************************************************************************)
NB_INTERVALS == 6
None == -1              \* Option::None of NoteInfo.note; Some(n) is n

(***************************************************************************)
(* Integer conversions of the source.                                      *)
(***************************************************************************)
as_u8(x) == x % 256
as_i8(x) == LET m == x % 256 IN IF m >= 128 THEN m - 256 ELSE m
i8_fits(x) == x >= -128 /\ x <= 127

(***************************************************************************)
(* NoteInfo (src/note_state.rs).                                           *)
(***************************************************************************)
NoteInfo_new(note, channel, velocity, timing) ==
    [note |-> note, channel |-> channel, velocity |-> velocity, timing |-> timing]

NoteInfo_default == [note |-> None, channel |-> 0, velocity |-> 0, timing |-> 0]

is_active(ni) == ni.note # None

\* (note as i8 + transposition) as u8, in the wrapping build
transposed(ni, transposition) ==
    IF ni.note = None THEN ni
    ELSE [ni EXCEPT !.note = as_u8(as_i8(as_i8(ni.note) + transposition))]

\* the i8 addition of transposed overflows
transposed_overflows(ni, transposition) ==
    ni.note # None /\ ~i8_fits(as_i8(ni.note) + transposition)

(***************************************************************************)
(* Events pushed to midi_events.                                           *)
(***************************************************************************)
NoteOn(note, timing, velocity, channel) ==
    [kind |-> "NoteOn", note |-> note, timing |-> timing,
     velocity |-> velocity, channel |-> channel]

NoteOff(note, timing, velocity, channel) ==
    [kind |-> "NoteOff", note |-> note, timing |-> timing,
     velocity |-> velocity, channel |-> channel]

(***************************************************************************)
(* The chord builder (MidiTransposer::build_chord).                        *)
(***************************************************************************)
\* The iteration orders of a HashSet holding S: every enumeration of S.
IterationOrders(S) ==
    {s \in [1..Cardinality(S) -> S] :
        \A i, j \in 1..Cardinality(S) : i # j => s[i] # s[j]}

\* the HashSet<i32> of the positive interval values, with 0 inserted
intervals_of(note_param) ==
    {note_param.intervals[i] : i \in {k \in 1..NB_INTERVALS : note_param.intervals[k] > 0}}
        \cup {0}

\* the notes pushed by the loop over the intervals, taken in the order given
RECURSIVE map_intervals(_, _, _, _)
map_intervals(order, mapped_note_info, octave_transpose, note_info) ==
    IF order = <<>> THEN <<>>
    ELSE LET mapped_note == as_u8(mapped_note_info.note + octave_transpose * 12 + Head(order))
             rest == map_intervals(Tail(order), mapped_note_info, octave_transpose, note_info)
         IN  IF mapped_note > 127 THEN rest
             ELSE <<NoteInfo_new(mapped_note, note_info.channel,
                                 note_info.velocity, note_info.timing)>> \o rest

\* build_chord panics: the transposition overflows i8 in a build that checks
build_chord_overflows(p, note_info) ==
    LET base_note == note_info.note % 12
    IN  /\ p.notes[base_note].active
        /\ as_u8(p.octave_transpose) # 0
        /\ transposed_overflows(note_info, as_i8(p.notes[base_note].transpose))

\* build_chord without the early exit for a deactivated pitch class
build_chord_no_exit(p, note_info) ==
    LET base_note == note_info.note % 12
        octave_transpose == as_u8(p.octave_transpose)
        note_transpose == as_i8(p.notes[base_note].transpose)
        mapped_note_info == IF octave_transpose # 0
                            THEN transposed(note_info, note_transpose)
                            ELSE note_info
        first == IF octave_transpose # 0 THEN <<mapped_note_info>> ELSE <<>>
    IN  {first \o map_intervals(order, mapped_note_info, octave_transpose, note_info) :
            order \in IterationOrders(intervals_of(p.notes[base_note]))}

\* The set of values generated_chord can have after build_chord(note_info):
\* one per iteration order of the interval set.
build_chord(p, note_info) ==
    LET base_note == note_info.note % 12
        octave_transpose == as_u8(p.octave_transpose)
        note_transpose == as_i8(p.notes[base_note].transpose)
        mapped_note_info == IF octave_transpose # 0
                            THEN transposed(note_info, note_transpose)
                            ELSE note_info
        first == IF octave_transpose # 0 THEN <<mapped_note_info>> ELSE <<>>
    IN  IF ~p.notes[base_note].active
        THEN {<<note_info>>}
        ELSE {first \o map_intervals(order, mapped_note_info, octave_transpose, note_info) :
                order \in IterationOrders(intervals_of(p.notes[base_note]))}

(***************************************************************************)
(* Chord playback (MidiTransposer::play_chord, stop_chord): the events     *)
(* appended to midi_events.                                                *)
(***************************************************************************)
play_chord(chord, timing) ==
    [i \in 1..Len(chord) |->
        NoteOn(chord[i].note, timing, chord[i].velocity, chord[i].channel)]

stop_chord(chord, velocity, timing) ==
    [i \in 1..Len(chord) |->
        NoteOff(chord[i].note, timing, velocity, chord[i].channel)]

(***************************************************************************)
(* The arpeggiator (src/arpeggiator.rs).  Beat positions and divisions are *)
(* counted in ticks of 1/TicksPerBeat beat, speed in tenths, the sample    *)
(* rate and the tempo in whole units; the float formulas are evaluated     *)
(* exactly and truncated where the source casts to u32.                    *)
(***************************************************************************)
TicksPerBeat == 12

\* NOTE_DIVISIONS[rate].division, in ticks (4.0, 2.0, 1.5, 1.0, 0.75, 2/3, 0.5, 1/3, 0.25 beats)
NOTE_DIVISIONS == <<48, 24, 18, 12, 9, 8, 6, 4, 3>>

Arpeggiator_new ==
    [samplerate |-> 0, synced |-> FALSE, tempo |-> None, num_samples |-> 0,
     division |-> TicksPerBeat, next_beat_position |-> 0, time |-> 0,
     current_index |-> 0, note_info |-> NoteInfo_default]

Arpeggiator_reset(a) ==
    [a EXCEPT !.tempo = None, !.num_samples = 0, !.division = TicksPerBeat,
              !.next_beat_position = 0, !.time = 0, !.current_index = 0,
              !.note_info = NoteInfo_default]

set_samplerate(a, samplerate) == [a EXCEPT !.samplerate = samplerate]

set_process_info(a, tempo, num_samples, arp_params) ==
    LET division == NOTE_DIVISIONS[arp_params.rate + 1]
        b == [a EXCEPT !.tempo = tempo, !.num_samples = num_samples,
                       !.synced = arp_params.synced]
    IN  IF division # a.division
        THEN [b EXCEPT !.division = division, !.next_beat_position = 0]
        ELSE b

\* restart also putting the clock back to its start
restart_clock(a) == [a EXCEPT !.current_index = 0, !.time = 0, !.next_beat_position = 0]

\* restart leaving the index where it is
restart_keep(a) == a

restart(a) == [a EXCEPT !.current_index = 0]

\* float to u32 of the quotient num/den (den > 0): truncated, negative to 0
\* (the values of the model stay far below u32::MAX)
as_u32_quot(num, den) == IF num <= 0 THEN 0 ELSE num \div den

get_note_duration(a, speed) ==
    LET tempo == IF a.tempo = None THEN 0 ELSE a.tempo
    IN  IF a.synced /\ tempo > 0
        THEN \* ceil(samplerate * 60 / tempo * division)
             LET num == a.samplerate * 60 * a.division
                 den == tempo * TicksPerBeat
             IN  (num + den - 1) \div den
        ELSE \* samplerate * 0.1 * (0.1 + (5.0 - 5.0 * speed)), speed in tenths
             as_u32_quot(a.samplerate * (51 - 5 * speed), 100)

\* the while loop of the branch num_samples >= note_duration
RECURSIVE free_loop(_, _, _)
free_loop(time, num_samples, note_duration) ==
    IF time < num_samples
    THEN LET timing == time + note_duration
             rest == free_loop(time + note_duration, num_samples, note_duration)
         IN  [time |-> rest.time,
              timings |-> (IF timing < num_samples THEN <<timing>> ELSE <<>>) \o rest.timings]
    ELSE [time |-> time, timings |-> <<>>]

\* arpeggiate_free never returns: the loop adds 0 to time for ever
arpeggiate_free_hangs(a, speed) ==
    /\ get_note_duration(a, speed) = 0
    /\ a.time < a.num_samples

\* arpeggiate_free panics: remainder by zero, or u32 subtraction overflow
\* in a build that checks
arpeggiate_free_panics(a, speed, checks) ==
    LET note_duration == get_note_duration(a, speed)
    IN  IF a.num_samples < note_duration
        THEN /\ a.time + a.num_samples >= note_duration
             /\ a.time > note_duration
             /\ checks
        ELSE a.num_samples = 0

\* arpeggiate_free without the min(.., num_samples - 1) of the short block
arpeggiate_free_unclamped(a, speed) ==
    LET note_duration == get_note_duration(a, speed)
    IN  IF a.num_samples < note_duration
        THEN [arp |-> [a EXCEPT !.time = (a.time + a.num_samples) % note_duration],
              timings |-> IF a.time + a.num_samples >= note_duration
                          THEN <<IF a.time <= note_duration THEN note_duration - a.time
                                 ELSE a.num_samples - 1>>
                          ELSE <<>>]
        ELSE LET r == free_loop(a.time, a.num_samples, note_duration)
             IN  [arp |-> [a EXCEPT !.time = r.time % a.num_samples],
                  timings |-> r.timings]

\* [arp, timings] after arpeggiate_free
arpeggiate_free(a, speed) ==
    LET note_duration == get_note_duration(a, speed)
    IN  IF a.num_samples < note_duration
        THEN LET \* min(note_duration - time, num_samples - 1); the u32
                 \* subtraction wraps to a value above num_samples when
                 \* time > note_duration
                 timing == IF a.time <= note_duration
                              /\ note_duration - a.time < a.num_samples - 1
                           THEN note_duration - a.time
                           ELSE a.num_samples - 1
             IN  [arp |-> [a EXCEPT !.time = (a.time + a.num_samples) % note_duration],
                  timings |-> IF a.time + a.num_samples >= note_duration
                              THEN <<timing>> ELSE <<>>]
        ELSE LET r == free_loop(a.time, a.num_samples, note_duration)
             IN  [arp |-> [a EXCEPT !.time = r.time % a.num_samples],
                  timings |-> r.timings]

\* arpeggiate_sync never returns: at sample rate 0 samples_per_beat is 0 (NaN
\* for a tempo of 0) and every offset is cast to 0
arpeggiate_sync_hangs(a) ==
    /\ a.num_samples > 0
    /\ a.samplerate = 0

\* the first grid point floor(beat_position) + k * min(division, 1.0), k >= 1,
\* that is >= beat_position and is not 0 (0 reads as "uncomputed")
RECURSIVE snap(_, _, _)
snap(beat_position, division, nb_divisions) ==
    LET step == IF division < TicksPerBeat THEN division ELSE TicksPerBeat
        floor == (beat_position \div TicksPerBeat) * TicksPerBeat
        next_division == floor + nb_divisions * step
    IN  IF next_division >= beat_position /\ next_division # 0
        THEN next_division
        ELSE snap(beat_position, division, nb_divisions + 1)

\* ((next_beat_position - beat_position) * samples_per_beat) as u32, with
\* samples_per_beat = samplerate / (tempo / 60); a tempo of 0 gives an
\* infinite samples_per_beat, so an offset of u32::MAX (here: num_samples) or,
\* for a difference <= 0, of 0
sync_timing(a, next_beat_position, beat_position) ==
    LET tempo == IF a.tempo = None THEN 60 ELSE a.tempo
        diff == next_beat_position - beat_position
    IN  IF tempo = 0
        THEN (IF diff > 0 THEN a.num_samples ELSE 0)
        ELSE as_u32_quot(diff * a.samplerate * 60, tempo * TicksPerBeat)

\* the while loop of arpeggiate_sync, from the second evaluation of its condition
RECURSIVE sync_loop(_, _, _)
sync_loop(a, beat_position, timing) ==
    IF timing < a.num_samples
    THEN LET next == IF a.next_beat_position = 0
                     THEN snap(beat_position, a.division, 1)
                     ELSE a.next_beat_position
             t == sync_timing(a, next, beat_position)
         IN  IF t < a.num_samples
             THEN LET rest == sync_loop([a EXCEPT !.next_beat_position = next + a.division],
                                        beat_position, t)
                  IN  [arp |-> rest.arp, timings |-> <<t>> \o rest.timings]
             ELSE sync_loop([a EXCEPT !.next_beat_position = next], beat_position, t)
    ELSE [arp |-> a, timings |-> <<>>]

\* [arp, timings] after arpeggiate_sync
arpeggiate_sync(a, beat_position) == sync_loop(a, beat_position, 0)

(***************************************************************************)
(* MidiTransposer::play_arp_note, on st = [arp, events].                   *)
(***************************************************************************)
play_arp_note_panics(a, chord) ==
    chord # <<>> /\ a.current_index >= Len(chord)

play_arp_note(st, chord, timing) ==
    LET off == IF is_active(st.arp.note_info)
               THEN <<NoteOff(st.arp.note_info.note, timing,
                              st.arp.note_info.velocity, st.arp.note_info.channel)>>
               ELSE <<>>
    IN  IF chord = <<>>
        THEN [arp |-> st.arp, events |-> st.events \o off]
        ELSE LET ni == chord[st.arp.current_index + 1]
             IN  [arp |-> [st.arp EXCEPT !.note_info = ni,
                                         !.current_index = (st.arp.current_index + 1) % Len(chord)],
                  events |-> st.events \o off
                                \o <<NoteOn(ni.note, timing, ni.velocity, ni.channel)>>]

\* the loop over the timings in process_arp
RECURSIVE play_arp_notes(_, _, _)
play_arp_notes(st, chord, timings) ==
    IF timings = <<>> THEN st
    ELSE play_arp_notes(play_arp_note(st, chord, Head(timings)), chord, Tail(timings))

(***************************************************************************)
(* Parameters (src/params.rs) and the inputs the model draws.              *)
(***************************************************************************)
NoteParam_default ==
    [active |-> TRUE, transpose |-> 0, intervals |-> [i \in 1..NB_INTERVALS |-> 0]]

\* interval sliders: the first MaxConfigured drawn from values, the rest at 0
IntervalArrays(values) ==
    {[i \in 1..NB_INTERVALS |-> IF i <= MaxConfigured THEN f[i] ELSE 0] :
        f \in [1..MaxConfigured -> values]}

Params_new(np, class, octave_transpose, arp_params, in_channel, out_channel) ==
    [in_channel |-> in_channel, out_channel |-> out_channel,
     octave_transpose |-> octave_transpose, arp |-> arp_params,
     notes |-> [c \in 0..11 |-> IF c = class THEN np ELSE NoteParam_default]]

ArpParams_default == [activated |-> FALSE, synced |-> FALSE, speed |-> 10, rate |-> 0]

\* the parameter values of the chord-builder specification
ChordNoteParams ==
    [active : BOOLEAN, transpose : {-12, -1, 0, 2, 12},
     intervals : IntervalArrays({-12, 0, 4, 7, 12})]
ChordParams ==
    {Params_new(np, class, oct, ArpParams_default, 1, 1) :
        np \in ChordNoteParams, class \in {0, 5}, oct \in -1..4}
ChordNotes == {0, 5, 60, 65, 120, 125, 127}

\* the parameter values of the engine specification: pitch class C configured
MachineNoteParams ==
    {[NoteParam_default EXCEPT !.intervals = [i \in 1..NB_INTERVALS |->
                                                IF i = 1 THEN 4 ELSE IF i = 2 THEN 7 ELSE 0]],
     [NoteParam_default EXCEPT !.active = FALSE, !.transpose = 2]}
MachineParams ==
    {Params_new(np, 0, oct, [ArpParams_default EXCEPT !.activated = on, !.speed = sp], 1, 1) :
        np \in MachineNoteParams, oct \in {-1, 0}, on \in BOOLEAN, sp \in {10}}
MachineNotes == {60, 62}
SampleRates == {200}
BlockSizes == {4}
Transports == {[playing |-> FALSE, tempo |-> None, pos_beats |-> 0]}

MachineTimings == {0}

\* the input note events of the host: velocity in percent
InputEvents(kind, notes, timings) ==
    {[kind |-> kind, note |-> n, timing |-> t, velocity |-> v, channel |-> 0] :
        n \in notes, t \in timings,
        v \in (IF kind = "NoteOn" THEN {80} ELSE {0})}

(***************************************************************************)
(* History.                                                                *)
(***************************************************************************)
\* the operations since construction while there are at most three of them,
\* More after that
More == <<[op |-> "more", note |-> None]>>

Remember(h, op, note) ==
    IF h # More /\ Len(h) < 3 THEN Append(h, [op |-> op, note |-> note])
    ELSE More

\* the record of an operation
Op(op, note, emitted, arp_on) ==
    [op |-> op, note |-> note, emitted |-> emitted, arp_on |-> arp_on]

\* the events an operation appended to midi_events
Emitted == SubSeq(midi_events', Len(midi_events) + 1, Len(midi_events'))

(***************************************************************************)
(* Initial state: MidiTransposer::default().                               *)
(***************************************************************************)
\* the events sent to the host so far, as the number of NoteOn less the number
\* of NoteOff of each pitch (pitches at 0 are left out)
RECURSIVE Tally(_, _)
Tally(net, events) ==
    IF events = <<>> THEN net
    ELSE LET e == Head(events)
             old == IF e.note \in DOMAIN net THEN net[e.note] ELSE 0
             new == IF e.kind = "NoteOn" THEN old + 1 ELSE old - 1
             dom == IF new = 0 THEN DOMAIN net \ {e.note} ELSE DOMAIN net \cup {e.note}
         IN  Tally([p \in dom |-> IF p = e.note THEN new ELSE net[p]], Tail(events))

\* the history of a plugin instance: no block counted, no event sent yet
NoRun ==
    [blocks |-> 0, triggers |-> 0, from |-> 0, beat |-> 0, timings |-> <<>>, seeks |-> 0,
     mode |-> "none", playing |-> FALSE, duration |-> 0, net |-> <<>>]

InitWith(param_choices, builds) ==
    /\ params \in param_choices
    /\ midi_events = <<>>
    /\ arp = Arpeggiator_new
    /\ current_note_held = NoteInfo_default
    /\ generated_chord = <<>>
    /\ notes_held = <<>>
    /\ pc = "new"
    /\ block = [num_samples |-> 0, last_timing |-> 0, inputs |-> 0]
    /\ overflow_checks \in builds
    /\ panicked = FALSE
    /\ hist = <<>>
    /\ last = Op("new", None, <<>>, FALSE)
    /\ down = {}
    /\ run = NoRun

\* no arithmetic overflows on the inputs of the engine specification, so the
\* two build profiles behave alike there
Init == InitWith(MachineParams, {FALSE})

InitChord == InitWith(ChordParams, BOOLEAN)

(***************************************************************************)
(* MidiTransposer::process_note_on.                                        *)
(***************************************************************************)
\* process_note_on without the stop_chord of the previous chord
process_note_on_no_stop(note_info) ==
    LET arp_on == params.arp.activated
    IN  IF build_chord_overflows(params, note_info) /\ overflow_checks
        THEN /\ panicked' = TRUE
             /\ UNCHANGED <<midi_events, arp, current_note_held, generated_chord, notes_held>>
        ELSE \E chord \in build_chord(params, note_info) :
             /\ notes_held' = Append(notes_held, note_info)
             /\ generated_chord' = chord
             /\ midi_events' = midi_events
                    \o (IF ~arp_on THEN play_chord(chord, note_info.timing) ELSE <<>>)
             /\ current_note_held' = note_info
             /\ arp' = restart(arp)
             /\ UNCHANGED panicked

process_note_on(note_info) ==
    LET arp_on == params.arp.activated
        stop == IF ~arp_on /\ note_info.note # current_note_held.note
                   /\ is_active(current_note_held)
                THEN stop_chord(generated_chord, note_info.velocity, note_info.timing)
                ELSE <<>>
    IN  IF build_chord_overflows(params, note_info) /\ overflow_checks
        THEN /\ panicked' = TRUE
             /\ UNCHANGED <<midi_events, arp, current_note_held, generated_chord, notes_held>>
        ELSE \E chord \in build_chord(params, note_info) :
             /\ notes_held' = Append(notes_held, note_info)
             /\ generated_chord' = chord
             /\ midi_events' = midi_events \o stop
                    \o (IF ~arp_on THEN play_chord(chord, note_info.timing) ELSE <<>>)
             /\ current_note_held' = note_info
             /\ arp' = restart(arp)
             /\ UNCHANGED panicked

(***************************************************************************)
(* MidiTransposer::process_note_off.                                       *)
(***************************************************************************)
\* process_note_off taking every released note for the current held note
process_note_off_any_note(note_info) ==
    LET arp_on == params.arp.activated
        held == SelectSeq(notes_held, LAMBDA ni : ni.note # note_info.note)
        stop == IF ~arp_on
                THEN stop_chord(generated_chord, note_info.velocity, note_info.timing)
                ELSE <<>>
    IN  IF held = <<>>
        THEN /\ notes_held' = held
             /\ current_note_held' = NoteInfo_default
             /\ generated_chord' = <<>>
             /\ midi_events' = midi_events \o stop
                    \o (IF is_active(arp.note_info)
                        THEN <<NoteOff(arp.note_info.note, note_info.timing,
                                       note_info.velocity, arp.note_info.channel)>>
                        ELSE <<>>)
             /\ arp' = Arpeggiator_reset(arp)
             /\ UNCHANGED panicked
        ELSE LET new_note_info == held[Len(held)]
             IN  \E chord \in build_chord(params, new_note_info) :
                      /\ notes_held' = held
                      /\ generated_chord' = chord
                      /\ midi_events' = midi_events \o stop
                             \o (IF ~arp_on THEN play_chord(chord, new_note_info.timing)
                                 ELSE <<>>)
                      /\ current_note_held' = note_info
                      /\ arp' = restart(arp)
                      /\ UNCHANGED panicked

process_note_off(note_info) ==
    LET arp_on == params.arp.activated
        held == SelectSeq(notes_held, LAMBDA ni : ni.note # note_info.note)
        stop == IF ~arp_on
                THEN stop_chord(generated_chord, note_info.velocity, note_info.timing)
                ELSE <<>>
    IN  IF note_info.note # current_note_held.note
        THEN /\ notes_held' = held
             /\ UNCHANGED <<midi_events, arp, current_note_held, generated_chord, panicked>>
        ELSE IF held = <<>>
        THEN /\ notes_held' = held
             /\ current_note_held' = NoteInfo_default
             /\ generated_chord' = <<>>
             /\ midi_events' = midi_events \o stop
                    \o (IF is_active(arp.note_info)
                        THEN <<NoteOff(arp.note_info.note, note_info.timing,
                                       note_info.velocity, arp.note_info.channel)>>
                        ELSE <<>>)
             /\ arp' = Arpeggiator_reset(arp)
             /\ UNCHANGED panicked
        ELSE LET new_note_info == held[Len(held)]
             IN  IF build_chord_overflows(params, new_note_info) /\ overflow_checks
                 THEN /\ panicked' = TRUE
                      /\ UNCHANGED <<midi_events, arp, current_note_held,
                                     generated_chord, notes_held>>
                 ELSE \E chord \in build_chord(params, new_note_info) :
                      /\ notes_held' = held
                      /\ generated_chord' = chord
                      /\ midi_events' = midi_events \o stop
                             \o (IF ~arp_on THEN play_chord(chord, new_note_info.timing)
                                 ELSE <<>>)
                      /\ current_note_held' = note_info
                      /\ arp' = restart(arp)
                      /\ UNCHANGED panicked

(***************************************************************************)
(* MidiTransposer::process_arp, on the events of the block.                *)
(***************************************************************************)
\* the choice of arpeggiate_sync without the test of transport.playing
process_arp_sync_stopped(a, transport) ==
    a.synced /\ transport.tempo # None

process_arp_sync(a, transport) ==
    a.synced /\ transport.playing /\ transport.tempo # None

process_arp_stuck(samples, transport) ==
    LET a == set_process_info(arp, transport.tempo, samples, params.arp)
    IN  IF process_arp_sync(a, transport)
        THEN arpeggiate_sync_hangs(a)
        ELSE arpeggiate_free_hangs(a, params.arp.speed)

process_arp_panics(samples, transport) ==
    LET a == set_process_info(arp, transport.tempo, samples, params.arp)
    IN  \/ ~process_arp_sync(a, transport)
           /\ arpeggiate_free_panics(a, params.arp.speed, overflow_checks)
        \/ play_arp_note_panics(a, generated_chord)
           /\ (IF process_arp_sync(a, transport)
               THEN arpeggiate_sync(a, transport.pos_beats).timings # <<>>
               ELSE arpeggiate_free(a, params.arp.speed).timings # <<>>)

\* [arp, events] after process_arp
process_arp(samples, transport) ==
    LET a == set_process_info(arp, transport.tempo, samples, params.arp)
        r == IF process_arp_sync(a, transport)
             THEN arpeggiate_sync(a, transport.pos_beats)
             ELSE arpeggiate_free(a, params.arp.speed)
    IN  play_arp_notes([arp |-> r.arp, events |-> midi_events], generated_chord, r.timings)

(***************************************************************************)
(* Plugin callbacks.  Plugin::process is taken in steps: the start of the  *)
(* block, one step per input event, and the end of the block (the          *)
(* arpeggiator and the sending of midi_events).                            *)
(***************************************************************************)
initialize(samplerate) ==
    /\ pc = "new" /\ ~panicked
    /\ arp' = set_samplerate(arp, samplerate)
    /\ pc' = "idle"
    /\ UNCHANGED <<params, midi_events, current_note_held, generated_chord,
                   notes_held, block, overflow_checks, panicked, hist, last, down, run>>

reset ==
    /\ pc = "idle" /\ ~panicked
    /\ arp' = Arpeggiator_reset(arp)
    /\ hist' = Remember(hist, "reset", None)
    /\ last' = Op("reset", None, <<>>, params.arp.activated)
    /\ UNCHANGED <<params, midi_events, current_note_held, generated_chord,
                   notes_held, pc, block, overflow_checks, panicked, down, run>>

process_begin(num_samples) ==
    /\ pc = "idle" /\ ~panicked
    /\ midi_events' = <<>>
    /\ block' = [num_samples |-> num_samples, last_timing |-> 0, inputs |-> 0]
    /\ pc' = "events"
    /\ UNCHANGED <<params, arp, current_note_held, generated_chord, notes_held,
                   overflow_checks, panicked, hist, last, down, run>>

\* the channel filter of process: the event is pushed through unprocessed
filtered_out(event) ==
    params.in_channel > 0 /\ event.channel # params.in_channel - 1

\* the NoteInfo process makes of an input event
note_info_of(event) ==
    NoteInfo_new(event.note,
                 IF as_u8(params.out_channel) > 0 THEN as_u8(params.out_channel)
                 ELSE event.channel,
                 event.velocity, event.timing)

process_event_note_on(event) ==
    /\ pc = "events" /\ ~panicked
    /\ block.inputs < MaxInputs
    /\ Len(notes_held) < MaxHeld
    /\ event.timing >= block.last_timing /\ event.timing < block.num_samples
    /\ block' = [block EXCEPT !.last_timing = event.timing, !.inputs = @ + 1]
    /\ IF filtered_out(event)
       THEN /\ midi_events' = Append(midi_events, event)
            /\ UNCHANGED <<arp, current_note_held, generated_chord, notes_held,
                           panicked, hist, last, down>>
       ELSE /\ process_note_on(note_info_of(event))
            /\ hist' = Remember(hist, "note_on", event.note)
            /\ last' = Op("note_on", event.note, Emitted, params.arp.activated)
            /\ down' = down \cup {event.note}
    /\ UNCHANGED <<params, pc, overflow_checks, run>>

process_event_note_off(event) ==
    /\ pc = "events" /\ ~panicked
    /\ block.inputs < MaxInputs
    /\ event.timing >= block.last_timing /\ event.timing < block.num_samples
    /\ block' = [block EXCEPT !.last_timing = event.timing, !.inputs = @ + 1]
    /\ IF filtered_out(event)
       THEN /\ midi_events' = Append(midi_events, event)
            /\ UNCHANGED <<arp, current_note_held, generated_chord, notes_held,
                           panicked, hist, last, down>>
       ELSE /\ process_note_off(note_info_of(event))
            /\ hist' = Remember(hist, "note_off", event.note)
            /\ last' = Op("note_off", event.note, Emitted, params.arp.activated)
            /\ down' = down \ {event.note}
    /\ UNCHANGED <<params, pc, overflow_checks, run>>

\* the end of the block, the history of the events sent left aside
process_end_block(transport) ==
    /\ pc = "events" /\ ~panicked
    /\ IF ~params.arp.activated
       THEN UNCHANGED <<midi_events, arp, panicked, hist, last>> /\ pc' = "idle"
       ELSE IF process_arp_stuck(block.num_samples, transport)
       THEN UNCHANGED <<midi_events, arp, panicked, hist, last>> /\ pc' = "stuck"
       ELSE IF process_arp_panics(block.num_samples, transport)
       THEN UNCHANGED <<midi_events, arp, hist, last>> /\ panicked' = TRUE /\ pc' = "events"
       ELSE LET r == process_arp(block.num_samples, transport)
            IN  /\ arp' = r.arp
                /\ midi_events' = r.events
                /\ hist' = Remember(hist, "process_arp", None)
                /\ last' = Op("process_arp", None, Emitted, TRUE)
                /\ pc' = "idle"
                /\ UNCHANGED panicked
    /\ UNCHANGED <<params, current_note_held, generated_chord, notes_held,
                   block, overflow_checks, down>>

process_end(transport) == process_end_block(transport) /\ UNCHANGED run

\* the end of the block, counting the events it sends (lib.rs, the send_event
\* loop over midi_events)
process_end_sent(transport) ==
    /\ process_end_block(transport)
    /\ run' = IF pc' = "idle" THEN [run EXCEPT !.net = Tally(@, midi_events')] ELSE run
    /\ \A p \in DOMAIN run'.net : run'.net[p] \in -MaxSounding..MaxSounding

\* the UI/automation thread switches the arpeggiator
set_arp_activated ==
    /\ pc \in {"idle", "events"} /\ ~panicked
    /\ params' = [params EXCEPT !.arp.activated = ~@]
    /\ hist' = Remember(hist, "set_arp_activated", None)
    /\ last' = Op("set_arp_activated", None, <<>>, ~params.arp.activated)
    /\ UNCHANGED <<midi_events, arp, current_note_held, generated_chord, notes_held,
                   pc, block, overflow_checks, panicked, down, run>>

Next ==
    \/ \E sr \in SampleRates : initialize(sr)
    \/ reset
    \/ \E n \in BlockSizes : process_begin(n)
    \/ \E e \in InputEvents("NoteOn", MachineNotes, MachineTimings) :
            process_event_note_on(e)
    \/ \E e \in InputEvents("NoteOff", MachineNotes, MachineTimings) :
            process_event_note_off(e)
    \/ \E t \in Transports : process_end(t)
    \/ set_arp_activated

Spec == Init /\ [][Next]_vars

\* the host or the UI stores other values in the parameters of pitch class C
\* (NoteParam: active, transpose, intervals)
set_note_param ==
    /\ pc \in {"idle", "events"} /\ ~panicked
    /\ \E np \in MachineNoteParams \ {params.notes[0]} :
           params' = [params EXCEPT !.notes[0] = np]
    /\ UNCHANGED <<midi_events, arp, current_note_held, generated_chord, notes_held,
                   pc, block, overflow_checks, panicked, hist, last, down, run>>

\* the engine with every parameter change of the model
NextParams ==
    \/ Next
    \/ set_note_param

\* started from the parameter values without octave shift
InitParams == InitWith({p \in MachineParams : p.octave_transpose = 0}, {FALSE})

SpecParams == InitParams /\ [][NextParams]_vars

\* the engine with the parameters held constant
NextSteady ==
    \/ \E sr \in SampleRates : initialize(sr)
    \/ reset
    \/ \E n \in BlockSizes : process_begin(n)
    \/ \E e \in InputEvents("NoteOn", MachineNotes, MachineTimings) :
            process_event_note_on(e)
    \/ \E e \in InputEvents("NoteOff", MachineNotes, MachineTimings) :
            process_event_note_off(e)
    \/ \E t \in Transports : process_end(t)

SpecSteady == Init /\ [][NextSteady]_vars

\* the engine with the parameters held constant and the sent events counted
NextSent ==
    \/ \E sr \in SampleRates : initialize(sr)
    \/ reset
    \/ \E n \in BlockSizes : process_begin(n)
    \/ \E e \in InputEvents("NoteOn", MachineNotes, MachineTimings) :
            process_event_note_on(e)
    \/ \E e \in InputEvents("NoteOff", MachineNotes, MachineTimings) :
            process_event_note_off(e)
    \/ \E t \in Transports : process_end_sent(t)

SpecSent == Init /\ [][NextSent]_vars

(***************************************************************************)
(* The block of events: input events at several sample offsets and on      *)
(* several channels (those off the input channel pass through), in chord   *)
(* mode or with the free-running arpeggiator.                              *)
(***************************************************************************)
\* the note events of the host on any channel: velocity in percent
HostEvents(kind, notes, timings, channels) ==
    {[kind |-> kind, note |-> n, timing |-> t, velocity |-> v, channel |-> c] :
        n \in notes, t \in timings, c \in channels,
        v \in (IF kind = "NoteOn" THEN {80} ELSE {0})}

BlockParams ==
    {Params_new(NoteParam_default, 0, 1,
                [ArpParams_default EXCEPT !.activated = on, !.speed = 9], 1, 1) :
        on \in BOOLEAN}
BlockNotes == {60, 62}
BlockTimings == {0, 3}
BlockChannels == {0, 1}
BlockSampleRates == {100}

InitBlock == InitWith(BlockParams, {FALSE})

NextBlock ==
    \/ \E sr \in BlockSampleRates : initialize(sr)
    \/ reset
    \/ \E n \in BlockSizes : process_begin(n)
    \/ \E e \in HostEvents("NoteOn", BlockNotes, BlockTimings, BlockChannels) :
            process_event_note_on(e)
    \/ \E e \in HostEvents("NoteOff", BlockNotes, BlockTimings, BlockChannels) :
            process_event_note_off(e)
    \/ \E t \in Transports : process_end(t)

SpecBlock == InitBlock /\ [][NextBlock]_vars

\* the same blocks under each value of the out parameter: 0 keeps the channel
\* of the event, 1 is the default and 16 the top of its range
OutChannels == {0, 1, 16}
ChannelParams ==
    {Params_new(NoteParam_default, 0, 1,
                [ArpParams_default EXCEPT !.activated = on, !.speed = 9], 1, out) :
        on \in BOOLEAN, out \in OutChannels}

InitChannel == InitWith(ChannelParams, {FALSE})

SpecChannel == InitChannel /\ [][NextBlock]_vars

(***************************************************************************)
(* Properties of the event list of a block, checked under SpecBlock and    *)
(* SpecChannel.                                                            *)
(***************************************************************************)
\* C11: within one processed block the outgoing event list is in
\* non-decreasing sample-offset order, whatever mix of processed input events,
\* pass-through events, chord events and arpeggiator triggers it holds.
C11_BlockOrdering ==
    \A i \in 1..(Len(midi_events) - 1) :
        midi_events[i].timing <= midi_events[i + 1].timing

\* every NoteOff of the events comes before every NoteOn, at the same or an
\* earlier sample offset
StopBeforeStart(events) ==
    \A i, j \in 1..Len(events) :
        (events[i].kind = "NoteOff" /\ events[j].kind = "NoteOn")
            => (i < j /\ events[i].timing <= events[j].timing)

\* C12: when one decision (a chord-mode note change, an arpeggiator trigger)
\* stops the previous note or chord and starts the next, every NoteOff of the
\* pair is appended before the NoteOn(s) and its sample offset is at most
\* theirs.
C12_StopBeforeStart ==
    /\ (last.op \in {"note_on", "note_off"} /\ ~panicked)
          => StopBeforeStart(last.emitted)
    /\ (last.op = "process_arp" /\ ~panicked)
          => \A j \in 2..Len(last.emitted) :
                (last.emitted[j].kind = "NoteOn" /\ last.emitted[j - 1].kind = "NoteOff")
                    => last.emitted[j - 1].timing <= last.emitted[j].timing


\* C23: every event of the output carries a channel in 0..15
C23_ChannelRange ==
    \A i \in 1..Len(midi_events) : midi_events[i].channel \in 0..15

(***************************************************************************)
(* Properties of the note handlers as steps, checked under Spec and        *)
(* SpecBlock.                                                              *)
(***************************************************************************)
HeldPitches == {notes_held[i].note : i \in 1..Len(notes_held)}

\* the step is process_note_off on an input event of the engine specification
NoteOffStep(e) == process_event_note_off(e) /\ ~filtered_out(e)

\* C16: a note_off for a pitch that is not in the held-note stack emits no
\* event and leaves the stack, the current held note, the chord and the
\* arpeggiator unchanged.
C16_UnheldNoteOffNoOp ==
    [][\A e \in InputEvents("NoteOff", MachineNotes, MachineTimings) :
          (NoteOffStep(e) /\ e.note \notin HeldPitches)
              => UNCHANGED <<midi_events, notes_held, current_note_held,
                             generated_chord, arp>>]_vars

\* C17: a note_off for a held pitch that is not the current held note removes
\* that pitch from the held-note stack and does nothing else: no event, the
\* current held note, the chord and the arpeggiator unchanged.
C17_NonCurrentNoteOff ==
    [][\A e \in InputEvents("NoteOff", MachineNotes, MachineTimings) :
          (NoteOffStep(e) /\ e.note \in HeldPitches /\ e.note # current_note_held.note)
              => /\ notes_held' = SelectSeq(notes_held, LAMBDA ni : ni.note # e.note)
                 /\ UNCHANGED <<midi_events, current_note_held, generated_chord, arp>>]_vars

\* C17 witness: 60 then 62 were pressed and 60, held but no longer current,
\* has been released: 62 alone is held and its chord is still the chord.
C17_Witness ==
    /\ hist = <<[op |-> "note_on", note |-> 60], [op |-> "note_on", note |-> 62],
                [op |-> "note_off", note |-> 60]>>
    /\ HeldPitches = {62}
    /\ current_note_held.note = 62
    /\ generated_chord # <<>>
    /\ last.emitted = <<>>

\* C18: the held-note stack holds at most one entry per pitch.
C18_OneSlotPerPitch ==
    \A i, j \in 1..Len(notes_held) :
        i # j => notes_held[i].note # notes_held[j].note

\* C19: a monophonic retrigger (a note_on while notes are held, or a note_off
\* of the current held note with other notes still held) sets the
\* arpeggiator's current_index to 0 and leaves its division, time,
\* next_beat_position and sounding note unchanged.
C19_RetriggerKeepsClock ==
    [][/\ \A e \in HostEvents("NoteOn", BlockNotes, BlockTimings, BlockChannels) :
             (process_event_note_on(e) /\ ~filtered_out(e) /\ notes_held # <<>>
              /\ ~panicked')
                 => arp' = [arp EXCEPT !.current_index = 0]
       /\ \A e \in HostEvents("NoteOff", BlockNotes, BlockTimings, BlockChannels) :
             (process_event_note_off(e) /\ ~filtered_out(e)
              /\ e.note = current_note_held.note /\ notes_held' # <<>>
              /\ ~panicked')
                 => arp' = [arp EXCEPT !.current_index = 0]]_vars

\* C19 witness: a second note has been pressed while the arpeggiator was
\* sounding a note in the middle of a note duration: the index is back at 0,
\* the clock and the sounding note are still there.
C19_Witness ==
    /\ last.op = "note_on" /\ last.arp_on
    /\ Len(notes_held) = 2
    /\ arp.current_index = 0
    /\ arp.time # 0
    /\ is_active(arp.note_info)

\* C20: a block processed with the arpeggiator switched off while an arpeggio
\* note is sounding emits a NoteOff for that note and resets the arpeggiator
\* (time, next_beat_position and current_index 0, no sounding note).
C20_ToggleOffStopsArp ==
    [][\A t \in Transports :
          (process_end(t) /\ ~params.arp.activated /\ is_active(arp.note_info))
              => /\ \E i \in 1..Len(midi_events') :
                       /\ midi_events'[i].kind = "NoteOff"
                       /\ midi_events'[i].note = arp.note_info.note
                 /\ arp'.time = 0
                 /\ arp'.next_beat_position = 0
                 /\ arp'.current_index = 0
                 /\ ~is_active(arp'.note_info)]_vars


\* C24: in chord mode a note_on of a pitch other than that of the still-active
\* current held note appends a NoteOff for every pitch of the previous chord,
\* then a NoteOn for every pitch of the new chord, all at the offset of the
\* new note, and makes the new note the current held note.
C24_ChordChange ==
    [][\A e \in HostEvents("NoteOn", BlockNotes, BlockTimings, BlockChannels) :
          (process_event_note_on(e) /\ ~filtered_out(e) /\ ~params.arp.activated
           /\ is_active(current_note_held) /\ e.note # current_note_held.note
           /\ ~panicked')
              => LET old == generated_chord
                     new == generated_chord'
                     out == SubSeq(midi_events', Len(midi_events) + 1, Len(midi_events'))
                 IN  /\ SubSeq(midi_events', 1, Len(midi_events)) = midi_events
                     /\ Len(out) = Len(old) + Len(new)
                     /\ \A i \in 1..Len(old) :
                            /\ out[i].kind = "NoteOff"
                            /\ out[i].note = old[i].note
                            /\ out[i].timing = e.timing
                     /\ \A i \in 1..Len(new) :
                            /\ out[Len(old) + i].kind = "NoteOn"
                            /\ out[Len(old) + i].note = new[i].note
                            /\ out[Len(old) + i].timing = e.timing
                     /\ current_note_held'.note = e.note]_vars

\* C24 witness: a second pitch has been pressed in chord mode over a sounding
\* chord of two pitches: two NoteOff and two NoteOn were appended.
C24_Witness ==
    /\ last.op = "note_on" /\ ~last.arp_on
    /\ Len(notes_held) = 2
    /\ notes_held[1].note # notes_held[2].note
    /\ Len(last.emitted) = 4
    /\ last.emitted[1].kind = "NoteOff"
    /\ last.emitted[3].kind = "NoteOn"
    /\ current_note_held.note = notes_held[2].note


\* C25: with the arpeggiator on, the note_off that empties the held notes
\* appends a NoteOff for the sounding arpeggio note at the offset of the
\* release, clears the chord and resets the arpeggiator; and a block ended
\* with no note held appends no NoteOn.
C25_LastReleaseStopsArp ==
    [][/\ \A e \in HostEvents("NoteOff", BlockNotes, BlockTimings, BlockChannels) :
             (NoteOffStep(e) /\ params.arp.activated
              /\ notes_held # <<>> /\ notes_held' = <<>>)
                 => /\ is_active(arp.note_info)
                        => \E i \in Len(midi_events) + 1 .. Len(midi_events') :
                              /\ midi_events'[i].kind = "NoteOff"
                              /\ midi_events'[i].note = arp.note_info.note
                              /\ midi_events'[i].timing = e.timing
                    /\ generated_chord' = <<>>
                    /\ arp' = Arpeggiator_reset(arp)
       /\ \A t \in Transports :
             (process_end(t) /\ params.arp.activated /\ notes_held = <<>>)
                 => \A i \in Len(midi_events) + 1 .. Len(midi_events') :
                        midi_events'[i].kind # "NoteOn"]_vars


\* C26: the first block ended after the arpeggiator was switched while a note
\* is held carries, for every pitch of the chord, a NoteOff when it was
\* switched on and a NoteOn when it was switched off.
C26_ToggleWithNoteHeld ==
    [][\A t \in Transports :
          (process_end(t) /\ Len(hist) = 2 /\ hist[1].op = "note_on"
           /\ hist[2].op = "set_arp_activated" /\ pc' = "idle")
              => \A i \in 1..Len(generated_chord) :
                    \E j \in 1..Len(midi_events') :
                       /\ midi_events'[j].note = generated_chord[i].note
                       /\ midi_events'[j].kind =
                              (IF params.arp.activated THEN "NoteOff" ELSE "NoteOn")]_vars

\* C27: a block in which a note event was handled and the parameter was
\* switched afterwards runs the arpeggiator clock exactly when the note event
\* was handled with the arpeggiator on.
C27_SingleObservation ==
    [][\A t \in Transports :
          (process_end(t) /\ block.inputs = 1 /\ Len(hist) = 2
           /\ hist[1].op = "note_on" /\ hist[2].op = "set_arp_activated"
           /\ pc' = "idle")
              => ((last'.op = "process_arp") <=> ~params.arp.activated)]_vars


\* C32: with the parameters held constant, once every pressed pitch has been
\* released and the block has ended, every pitch has been sent as many NoteOff
\* as NoteOn, and a block processed with no key held sends no NoteOn.
C32_NoStuckNotes ==
    (pc = "idle" /\ ~panicked /\ down = {})
        => /\ DOMAIN run.net = {}
           /\ block.inputs = 0
                  => \A i \in 1..Len(midi_events) : midi_events[i].kind # "NoteOn"


\* C34: whenever the chord is not empty the arpeggiator's index is inside it
\* (so the read generated_chord[current_index] of play_arp_note is in bounds).
C34_IndexInBounds ==
    generated_chord # <<>> => arp.current_index < Len(generated_chord)

\* C34 witness: the arpeggiator has stepped through a chord of three pitches to
\* its last entry.
C34_Witness ==
    /\ last.op = "process_arp"
    /\ Len(generated_chord) = 3
    /\ arp.current_index = 2
    /\ arp.note_info = generated_chord[2]

(***************************************************************************)
(* The arpeggiator clock alone: set_process_info followed by               *)
(* arpeggiate_free or arpeggiate_sync, block after block, as process_arp   *)
(* calls them.  run counts the blocks and the triggers of a window and     *)
(* follows the host's beat position.                                       *)
(***************************************************************************)
ClockParams(synced, speed, rate) ==
    Params_new(NoteParam_default, 0, 0,
               [activated |-> TRUE, synced |-> synced, speed |-> speed, rate |-> rate], 1, 1)

\* free mode: note durations 1, 2, 4 (speed 1.0) and 6, 12, 24 (speed 0.9) at
\* the rates 100, 200, 400; 0 is the sample rate held before initialize
FreeSampleRates == {0, 50, 100, 200, 400}
FreeSpeeds == {9, 10}
FreeBlockSizes == {2, 3, 4, 6}

\* synced mode: 4 samples in a tick at tempo 120 and sample rate 96 (0 is the
\* sample rate held before initialize); divisions 4.0, 1.0, 0.5
SyncSampleRates == {0, 96}
SyncTempos == {0, 120}
SyncRates == {0, 3, 6}
SyncBlockSizes == {64, 512}
SyncStarts == {0, 5, 6, 12}
SeekTicks == {24, 30}
\* the speed parameter of the synced configurations (0.1): free blocks of 44
\* samples a note when the host gives no tempo
SyncSpeeds == {1}

\* the transport the host reports for a block at beat position beat
ClockTransports(beat) ==
    {[playing |-> p, tempo |-> t, pos_beats |-> beat] :
        p \in BOOLEAN, t \in SyncTempos \cup {None}}

InitClock ==
    /\ \/ /\ params \in {ClockParams(FALSE, sp, 0) : sp \in FreeSpeeds}
          /\ arp \in {set_samplerate(Arpeggiator_new, sr) : sr \in FreeSampleRates}
          /\ block \in {[num_samples |-> n, last_timing |-> 0, inputs |-> 0] :
                            n \in FreeBlockSizes}
          /\ run = NoRun
       \/ /\ params \in {ClockParams(TRUE, sp, r) : sp \in SyncSpeeds, r \in SyncRates}
          /\ arp \in {set_samplerate(Arpeggiator_new, sr) : sr \in SyncSampleRates}
          /\ block \in {[num_samples |-> n, last_timing |-> 0, inputs |-> 0] :
                            n \in SyncBlockSizes}
          /\ run \in {[NoRun EXCEPT !.beat = b] : b \in SyncStarts}
    /\ midi_events = <<>>
    /\ current_note_held = NoteInfo_default
    /\ generated_chord = <<>>
    /\ notes_held = <<>>
    /\ pc = "clock"
    /\ overflow_checks \in BOOLEAN
    /\ panicked = FALSE
    /\ hist = <<>>
    /\ last = Op("new", None, <<>>, TRUE)
    /\ down = {}

\* one block that process_arp hands to arpeggiate_free
clock_free(transport) ==
    /\ pc = "clock" /\ ~panicked
    /\ run.blocks < MaxBlocks
    /\ LET a == set_process_info(arp, transport.tempo, block.num_samples, params.arp)
       IN  /\ ~process_arp_sync(a, transport)
           /\ IF arpeggiate_free_hangs(a, params.arp.speed)
              THEN pc' = "stuck" /\ UNCHANGED <<arp, run, panicked>>
              ELSE IF arpeggiate_free_panics(a, params.arp.speed, overflow_checks)
              THEN panicked' = TRUE /\ UNCHANGED <<arp, run, pc>>
              ELSE LET r == arpeggiate_free(a, params.arp.speed)
                   IN  /\ arp' = r.arp
                       /\ run' = [run EXCEPT
                                     !.blocks = @ + 1,
                                     !.triggers = @ + Len(r.timings),
                                     !.timings = r.timings,
                                     !.mode = "free",
                                     !.playing = transport.playing,
                                     !.duration = get_note_duration(a, params.arp.speed)]
                       /\ UNCHANGED <<pc, panicked>>
    /\ UNCHANGED <<params, midi_events, current_note_held, generated_chord, notes_held,
                   block, overflow_checks, hist, last, down>>

\* the ticks the host's beat position advances over num_samples samples
beat_advance(samplerate, tempo, num_samples) ==
    (num_samples * tempo * TicksPerBeat) \div (samplerate * 60)

\* one block that process_arp hands to arpeggiate_sync
clock_sync(transport) ==
    /\ pc = "clock" /\ ~panicked
    /\ run.blocks < MaxBlocks
    /\ LET a == set_process_info(arp, transport.tempo, block.num_samples, params.arp)
       IN  /\ process_arp_sync(a, transport)
           /\ IF arpeggiate_sync_hangs(a)
              THEN pc' = "stuck" /\ UNCHANGED <<arp, run>>
              ELSE LET r == arpeggiate_sync(a, transport.pos_beats)
                   IN  /\ arp' = r.arp
                       /\ run' = [run EXCEPT
                                     !.blocks = @ + 1,
                                     !.triggers = @ + Len(r.timings),
                                     !.timings = r.timings,
                                     !.from = transport.pos_beats,
                                     !.beat = @ + beat_advance(a.samplerate, transport.tempo,
                                                               block.num_samples),
                                     !.mode = "sync",
                                     !.playing = transport.playing]
                       /\ UNCHANGED pc
    /\ UNCHANGED <<params, midi_events, current_note_held, generated_chord, notes_held,
                   block, overflow_checks, panicked, hist, last, down>>

\* the host moves its beat position forward between two blocks
clock_seek(ticks) ==
    /\ pc = "clock" /\ ~panicked
    /\ params.arp.synced
    /\ run.blocks > 0 /\ run.seeks < MaxSeeks
    /\ run' = [run EXCEPT !.beat = @ + ticks, !.seeks = @ + 1]
    /\ UNCHANGED <<params, midi_events, arp, current_note_held, generated_chord,
                   notes_held, pc, block, overflow_checks, panicked, hist, last, down>>

\* a new window of consecutive blocks starts here
clock_mark ==
    /\ pc = "clock" /\ ~panicked
    /\ ~params.arp.synced
    /\ run.blocks > 0
    /\ run' = [run EXCEPT !.blocks = 0, !.triggers = 0]
    /\ UNCHANGED <<params, midi_events, arp, current_note_held, generated_chord,
                   notes_held, pc, block, overflow_checks, panicked, hist, last, down>>

\* the speed parameter is given another value between two blocks; the window
\* of blocks counted under one speed starts again
clock_set_speed ==
    /\ pc = "clock" /\ ~panicked
    /\ \E sp \in (IF params.arp.synced THEN SyncSpeeds ELSE FreeSpeeds) \ {params.arp.speed} :
           params' = [params EXCEPT !.arp.speed = sp]
    /\ run' = [run EXCEPT !.blocks = 0, !.triggers = 0, !.mode = "none"]
    /\ UNCHANGED <<midi_events, arp, current_note_held, generated_chord,
                   notes_held, pc, block, overflow_checks, panicked, hist, last, down>>

NextClock ==
    \/ \E transport \in ClockTransports(run.beat) : clock_free(transport)
    \/ \E transport \in ClockTransports(run.beat) : clock_sync(transport)
    \/ \E ticks \in SeekTicks : clock_seek(ticks)
    \/ clock_mark
    \/ clock_set_speed

SpecClock == InitClock /\ [][NextClock]_vars

(***************************************************************************)
(* Properties of the arpeggiator clock, checked under SpecClock.           *)
(***************************************************************************)
\* C13: in free mode with the note duration an integer multiple k >= 1 of the
\* block size, over any window of consecutive blocks totalling T samples the
\* number of triggers is within 1 of floor(T / duration).
C13_FreePeriodicity ==
    LET duration == get_note_duration(arp, params.arp.speed)
        T == run.blocks * block.num_samples
    IN  (pc = "clock" /\ ~panicked /\ ~params.arp.synced
         /\ duration > 0 /\ duration % block.num_samples = 0)
            => /\ run.triggers <= T \div duration + 1
               /\ run.triggers >= T \div duration - 1

\* the sample offsets, in the block starting at beat position from, of the
\* quarter-note grid points the block contains
GridOffsets(from, samples_per_tick, num_samples) ==
    {(g * TicksPerBeat - from) * samples_per_tick :
        g \in {h \in 0..((from \div TicksPerBeat) + (num_samples \div samples_per_tick) + 1) :
                 /\ h * TicksPerBeat >= from
                 /\ (h * TicksPerBeat - from) * samples_per_tick < num_samples}}

\* C14: synced at tempo 120, division 1.0, the beat position advancing by
\* block_size / samples_per_beat per block, block size 64 or 512: the triggers
\* of a block are exactly one per quarter-note grid point the block contains,
\* each within one sample of (grid_point - beat_position) * samples_per_beat.
C14_SyncPhaseLock ==
    (pc = "clock" /\ run.mode = "sync" /\ run.blocks > 0 /\ run.seeks = 0
     /\ arp.tempo = 120 /\ arp.division = TicksPerBeat
     /\ block.num_samples \in {64, 512})
        => LET expected == GridOffsets(run.from, arp.samplerate \div 24, block.num_samples)
           IN  /\ Len(run.timings) = Cardinality(expected)
               /\ \A e \in expected : \E i \in 1..Len(run.timings) :
                     run.timings[i] - e \in {-1, 0, 1}
               /\ \A i \in 1..Len(run.timings) : \E e \in expected :
                     run.timings[i] - e \in {-1, 0, 1}

\* C15: the trigger offsets the clock produces in one block are strictly
\* increasing, in free mode and in synced mode, also when the host's beat
\* position has moved past the stored next_beat_position.
C15_NoDoubleTrigger ==
    \A i, j \in 1..Len(run.timings) : i < j => run.timings[i] < run.timings[j]


\* C21: in a synced block whose tempo the host reports as absent or zero the
\* trigger offsets are those of a clock running at 60 BPM (samples per beat
\* equal to the sample rate)
C21_TempoFallback ==
    [][\A transport \in ClockTransports(run.beat) :
          (clock_sync(transport) /\ transport.tempo \in {None, 0} /\ pc' = "clock")
              => LET a == set_process_info(arp, 60, block.num_samples, params.arp)
                 IN  run'.timings = arpeggiate_sync(a, transport.pos_beats).timings]_vars

\* C22: in free mode the note duration is at least one sample, for every
\* sample rate the arpeggiator holds and every speed
C22_FreeDurationPositive ==
    (pc = "clock" /\ ~params.arp.synced) => get_note_duration(arp, params.arp.speed) >= 1


\* the free-mode duration of the speed parameter (in tenths):
\* floor(sample_rate * 0.1 * (0.1 + 5.0 * (1 - speed)))
SpeedDuration(samplerate, speed) == (samplerate * (51 - 5 * speed)) \div 100

\* the duration of one division at the host's tempo:
\* ceil(sample_rate * 60 / tempo * division)
DivisionDuration(samplerate, tempo, division) ==
    LET num == samplerate * 60 * division
        den == tempo * TicksPerBeat
    IN  IF num % den = 0 THEN num \div den ELSE num \div den + 1

MinGrid(beat_position, division) ==
    LET step == IF division < TicksPerBeat THEN division ELSE TicksPerBeat
        floor == (beat_position \div TicksPerBeat) * TicksPerBeat
        grid == {floor + k * step : k \in 0..TicksPerBeat}
    IN  CHOOSE p \in grid :
            p >= beat_position /\ \A q \in grid : q >= beat_position => p <= q

\* C29: a synced block entered with next_beat_position uncomputed starts its
\* triggers from the smallest grid point >= beat_position (each trigger of the
\* block then moves next_beat_position on by one division).
C29_SnapSmallest ==
    [][\A transport \in ClockTransports(run.beat) :
          LET a == set_process_info(arp, transport.tempo, block.num_samples, params.arp)
          IN  (clock_sync(transport) /\ a.next_beat_position = 0 /\ pc' = "clock")
                  => arp'.next_beat_position - Len(run'.timings) * a.division
                         = MinGrid(transport.pos_beats, a.division)]_vars

\* C30: the trigger offsets of a block of N samples lie in 0..N-1, and a synced
\* block leaves next_beat_position at a beat whose offset is >= N.
C30_OffsetsInBlock ==
    (pc = "clock" /\ run.mode # "none")
        => /\ \A i \in 1..Len(run.timings) : run.timings[i] \in 0..(block.num_samples - 1)
           /\ (run.mode = "sync")
                  => sync_timing(arp, arp.next_beat_position, run.from) >= block.num_samples

\* C30 witness: a synced block at tempo 120 with several triggers, the last of
\* them in the second half of the block.
C30_Witness ==
    /\ pc = "clock" /\ run.mode = "sync" /\ arp.tempo = 120
    /\ Len(run.timings) >= 2
    /\ 2 * run.timings[Len(run.timings)] >= block.num_samples
    /\ arp.next_beat_position > run.from


\* C31: in free mode with 1 <= duration <= block size, the triggers of a block
\* are exactly duration samples apart, and a window of consecutive blocks
\* totalling T samples holds at least floor(T / duration) triggers (one at
\* every multiple of duration, none skipped).
C31_FreeEveryMultiple ==
    LET duration == get_note_duration(arp, params.arp.speed)
        T == run.blocks * block.num_samples
    IN  (pc = "clock" /\ ~panicked /\ ~params.arp.synced /\ run.mode = "free"
         /\ duration >= 1 /\ duration <= block.num_samples)
            => /\ \A i \in 1..(Len(run.timings) - 1) :
                      run.timings[i + 1] - run.timings[i] = duration
               /\ run.triggers >= T \div duration


\* C33: arpeggiate_free and arpeggiate_sync return for every block.
C33_LoopsTerminate == pc # "stuck"


\* C35: at the start of every block that arpeggiate_free takes with
\* num_samples < note_duration, time <= note_duration (the subtraction
\* note_duration - time does not underflow).
C35_NoUnderflow ==
    (pc = "clock" /\ ~panicked)
        => \A transport \in ClockTransports(run.beat) :
              LET a == set_process_info(arp, transport.tempo, block.num_samples, params.arp)
                  note_duration == get_note_duration(a, params.arp.speed)
              IN  (~process_arp_sync(a, transport) /\ a.num_samples < note_duration)
                      => a.time <= note_duration

(***************************************************************************)
(* The chord builder alone: build_chord applied to one note under every    *)
(* parameter value of ChordParams.                                         *)
(***************************************************************************)
call_build_chord(note_info) ==
    /\ ~panicked /\ last.op = "new"
    /\ IF build_chord_overflows(params, note_info) /\ overflow_checks
       THEN panicked' = TRUE /\ UNCHANGED generated_chord
       ELSE /\ generated_chord' \in build_chord(params, note_info)
            /\ UNCHANGED panicked
    /\ last' = Op("build_chord", note_info.note, <<>>, params.arp.activated)
    /\ UNCHANGED <<params, midi_events, arp, current_note_held, notes_held, pc,
                   block, overflow_checks, hist, down, run>>

NextChord ==
    \E n \in ChordNotes : call_build_chord(NoteInfo_new(n, 1, 80, 0))

SpecChord == InitChord /\ [][NextChord]_vars

(***************************************************************************)
(* Properties of the chord builder, checked under SpecChord.               *)
(***************************************************************************)
ChordPitches == {generated_chord[i].note : i \in 1..Len(generated_chord)}

\* build_chord has returned
Built == last.op = "build_chord" /\ ~panicked

BuiltParam == params.notes[last.note % 12]

\* the interval values configured for the pitch class of the note
BuiltIntervals == {BuiltParam.intervals[i] : i \in 1..NB_INTERVALS}

\* note.pitch + transpose, and its octave-shifted copy
MappedPitch == last.note + BuiltParam.transpose
ShiftedPitch == MappedPitch + 12 * params.octave_transpose

\* C4: every pitch build_chord places in the chord is in [0,127].
C4_RangeInvariant ==
    Built => \A i \in 1..Len(generated_chord) : generated_chord[i].note \in 0..127

\* C5: the chord build_chord produces never holds the same pitch twice.
C5_NoDuplicatePitch ==
    Built => \A i, j \in 1..Len(generated_chord) :
                i # j => generated_chord[i].note # generated_chord[j].note

\* C6: for an active pitch class the chord holds mapped_pitch + 12 *
\* octave_transpose, with mapped_pitch = note.pitch + transpose, whenever that
\* pitch is in [0,127], for every octave_transpose (0 included).
C6_TransposeApplied ==
    (Built /\ BuiltParam.active /\ ShiftedPitch \in 0..127)
        => ShiftedPitch \in ChordPitches

\* C7: for an active pitch class and each configured interval i, positive or
\* negative, the chord holds mapped_pitch + 12 * octave_transpose + i exactly
\* when that value is in [0,127].
C7_IntervalsMapped ==
    (Built /\ BuiltParam.active)
        => \A i \in BuiltIntervals :
              (ShiftedPitch + i \in ChordPitches) <=> (ShiftedPitch + i \in 0..127)

\* C8: with octave_transpose # 0 the chord holds both mapped_pitch and
\* mapped_pitch + 12 * octave_transpose (each when in [0,127]); with
\* octave_transpose = 0 it holds no pitch other than mapped_pitch and
\* mapped_pitch + i for the configured intervals i.
C8_OctaveEcho ==
    (Built /\ BuiltParam.active)
        => IF params.octave_transpose # 0
           THEN /\ MappedPitch \in 0..127 => MappedPitch \in ChordPitches
                /\ ShiftedPitch \in 0..127 => ShiftedPitch \in ChordPitches
           ELSE ChordPitches \subseteq
                    ({MappedPitch} \cup {MappedPitch + i : i \in BuiltIntervals})

\* C9: for a pitch class that is not active build_chord returns exactly the
\* one-element chord of the input note, whatever the transpose, the intervals
\* and octave_transpose are.
C9_InactivePassThrough ==
    (Built /\ ~BuiltParam.active)
        => /\ Len(generated_chord) = 1
           /\ generated_chord[1].note = last.note

\* C9 witness: build_chord has run on a deactivated pitch class whose
\* transpose, intervals and octave transpose would all have changed the chord.
C9_Witness ==
    /\ Built /\ ~BuiltParam.active
    /\ BuiltParam.transpose # 0
    /\ params.octave_transpose # 0
    /\ \E i \in BuiltIntervals : i > 0
    /\ generated_chord = <<NoteInfo_new(last.note, 1, 80, 0)>>

(***************************************************************************)
(* Properties of the voice stack and of the arpeggio rotation, checked     *)
(* under Spec.                                                             *)
(***************************************************************************)
\* the pitches build_chord gives for a note (the same under every iteration order)
PitchesBuiltFrom(note) ==
    LET chord == CHOOSE c \in build_chord(params, NoteInfo_new(note, 0, 0, 0)) : TRUE
    IN  {chord[i].note : i \in 1..Len(chord)}

\* the operations since construction are exactly these three note events,
\* all in chord mode
ChordModeRun(op1, n1, op2, n2, op3, n3) ==
    /\ hist = <<[op |-> op1, note |-> n1], [op |-> op2, note |-> n2],
                [op |-> op3, note |-> n3]>>
    /\ ~params.arp.activated
    /\ ~panicked

\* C1: in chord mode, for distinct pitches A and B: after note_on(A),
\* note_on(B), note_off(B) the active chord is the chord of A and the current
\* held note is A; after note_on(A), note_on(B), note_off(A) the chord of B is
\* still active, the current held note is B and the note_off emitted nothing.
C1_MonophonicPriority ==
    \A A, B \in MachineNotes :
        A # B =>
            /\ ChordModeRun("note_on", A, "note_on", B, "note_off", B)
                  => /\ ChordPitches = PitchesBuiltFrom(A)
                     /\ current_note_held.note = A
            /\ ChordModeRun("note_on", A, "note_on", B, "note_off", A)
                  => /\ ChordPitches = PitchesBuiltFrom(B)
                     /\ current_note_held.note = B
                     /\ last.emitted = <<>>

\* no pitch is stopped twice by the events of one operation
NoRepeatedStop(events) ==
    \A i, j \in 1..Len(events) :
        (i # j /\ events[i].kind = "NoteOff" /\ events[j].kind = "NoteOff")
            => events[i].note # events[j].note

\* C2: once every pressed pitch has been released, after the last note_off the
\* held-note stack is empty, there is no current held note, the chord is empty,
\* and that note_off stopped no pitch twice.
C2_StackEmptiness ==
    (last.op = "note_off" /\ down = {} /\ ~panicked)
        => /\ notes_held = <<>>
           /\ ~is_active(current_note_held)
           /\ generated_chord = <<>>
           /\ NoRepeatedStop(last.emitted)

\* C3: a current held note, when present, has the pitch of the last element
\* of the held-note stack, and the held-note stack is empty exactly when the
\* chord is empty.
C3_VoiceStackInvariant ==
    ~panicked =>
        /\ is_active(current_note_held)
              => /\ notes_held # <<>>
                 /\ notes_held[Len(notes_held)].note = current_note_held.note
        /\ (notes_held = <<>>) <=> (generated_chord = <<>>)

\* the k-th pitch of the chord in ascending pitch order
AscendingPitch(chord, k) ==
    CHOOSE x \in {chord[i].note : i \in 1..Len(chord)} :
        /\ Cardinality({i \in 1..Len(chord) : chord[i].note < x}) < k
        /\ Cardinality({i \in 1..Len(chord) : chord[i].note <= x}) >= k

\* C10: each arpeggiator trigger starts chord[current_index], the chord taken
\* in ascending pitch order, and advances current_index by one modulo the
\* chord length (chord {60,64,67}: On(60), On(64), On(67), On(60), ...).
C10_ArpRotation ==
    (last.op = "process_arp" /\ last.emitted # <<>> /\ generated_chord # <<>> /\ ~panicked)
        => LET n == Len(generated_chord)
               started == (arp.current_index + n - 1) % n
               on == last.emitted[Len(last.emitted)]
           IN  /\ on.kind = "NoteOn"
               /\ on.note = AscendingPitch(generated_chord, started + 1)
               /\ arp.note_info.note = on.note

====
